---- MODULE Spec2Model ----
(***************************************************************************)
(* Model of the custom-amazon-bedrock-agent-action GitHub Action.          *)
(*                                                                         *)
(* The program modelled is the current entry point, src/index.js lines     *)
(* 448-644 (main, processFile, formatMarkdownComment), together with the   *)
(* agent wrapper it calls, BedrockAgentRuntimeWrapper.invokeAgent in       *)
(* src/unnamed/part_001 lines 80-156.                                      *)
(*                                                                         *)
(* Strings are sequences of tokens.  File names, ignore patterns and the   *)
(* decimal digits of numbers are spelled character by character, so that   *)
(* String.includes, String.split, String.trim and glob matching are        *)
(* computed on characters.  The fixed text of a template literal is one    *)
(* token: the model assumes that no file name occurs inside the fixed      *)
(* text of a template.  The Markdown code fence of the templates is        *)
(* written ''' in the model's tokens.                                        *)
(***************************************************************************)
EXTENDS Integers, Sequences, FiniteSets, TLC

(***************************************************************************)
(* String helpers (JavaScript built-ins used by the program).              *)
(***************************************************************************)

\* String.prototype.includes(needle): needle occurs as a contiguous substring
includes(body, needle) ==
    \E i \in 0..(Len(body) - Len(needle)) :
        SubSeq(body, i + 1, i + Len(needle)) = needle

\* Concatenation of a sequence of strings: Array.prototype.join('')
RECURSIVE join(_)
join(ss) == IF ss = <<>> THEN <<>> ELSE Head(ss) \o join(Tail(ss))

\* Array.prototype.join(sep)
RECURSIVE joinWith(_, _)
joinWith(ss, sep) ==
    IF ss = <<>> THEN <<>>
    ELSE IF Len(ss) = 1 THEN Head(ss)
    ELSE Head(ss) \o sep \o joinWith(Tail(ss), sep)

\* String.prototype.split(sep) for a one-character separator
RECURSIVE split(_, _)
split(s, sep) ==
    IF \A i \in 1..Len(s) : s[i] # sep THEN <<s>>
    ELSE LET k == CHOOSE i \in 1..Len(s) :
                      s[i] = sep /\ \A j \in 1..(i - 1) : s[j] # sep
         IN  <<SubSeq(s, 1, k - 1)>> \o split(SubSeq(s, k + 1, Len(s)), sep)

WhiteSpace == {" ", "\n", "\t", "\r"}

\* String.prototype.trim()
RECURSIVE trim(_)
trim(s) ==
    IF s = <<>> THEN s
    ELSE IF Head(s) \in WhiteSpace THEN trim(Tail(s))
    ELSE IF s[Len(s)] \in WhiteSpace THEN trim(SubSeq(s, 1, Len(s) - 1))
    ELSE s

\* Array.prototype.filter(Boolean) on strings: drops the empty ones
RECURSIVE filterNonEmpty(_)
filterNonEmpty(ss) ==
    IF ss = <<>> THEN <<>>
    ELSE IF Head(ss) = <<>> THEN filterNonEmpty(Tail(ss))
    ELSE <<Head(ss)>> \o filterNonEmpty(Tail(ss))

\* Array.prototype.map(s => s.trim())
mapTrim(ss) == [i \in 1..Len(ss) |-> trim(ss[i])]

Digit(d) == CASE d = 0 -> "0" [] d = 1 -> "1" [] d = 2 -> "2" [] d = 3 -> "3"
              [] d = 4 -> "4" [] d = 5 -> "5" [] d = 6 -> "6" [] d = 7 -> "7"
              [] d = 8 -> "8" [] d = 9 -> "9"

\* Template-literal interpolation of a non-negative integer: its decimal digits
RECURSIVE NumToString(_)
NumToString(n) ==
    IF n < 10 THEN <<Digit(n)>> ELSE NumToString(n \div 10) \o <<Digit(n % 10)>>

(***************************************************************************)
(* minimatch(filename, pattern) with default options, for patterns made of *)
(* literal characters, "*" and "**" (no braces, classes, "?" or negation). *)
(***************************************************************************)

\* one path segment against one pattern segment; "*" matches any run of
\* characters of the segment
RECURSIVE globSegment(_, _)
globSegment(seg, pat) ==
    IF pat = <<>> THEN seg = <<>>
    ELSE IF Head(pat) = "*"
         THEN \E k \in 0..Len(seg) : globSegment(SubSeq(seg, k + 1, Len(seg)), Tail(pat))
         ELSE seg # <<>> /\ Head(seg) = Head(pat) /\ globSegment(Tail(seg), Tail(pat))

\* with dot:false a segment starting with "." is matched only by a pattern
\* segment that starts with a literal "."
matchSegment(seg, pat) ==
    /\ seg # <<>>
    /\ (Head(seg) = "." => (pat # <<>> /\ Head(pat) = "."))
    /\ globSegment(seg, pat)

GLOBSTAR == <<"*", "*">>

\* the segments of the path against the segments of the pattern; "**" as a
\* whole segment matches zero or more directories
RECURSIVE matchSegments(_, _)
matchSegments(segs, pats) ==
    IF pats = <<>> THEN segs = <<>>
    ELSE IF Head(pats) = GLOBSTAR
         THEN \/ matchSegments(segs, Tail(pats))
              \/ /\ segs # <<>>
                 /\ Head(segs) # <<>>
                 /\ Head(Head(segs)) # "."
                 /\ matchSegments(Tail(segs), pats)
         ELSE /\ segs # <<>>
              /\ matchSegment(Head(segs), Head(pats))
              /\ matchSegments(Tail(segs), Tail(pats))

minimatch(filename, pattern) ==
    IF pattern = <<>> THEN filename = <<>>
    ELSE matchSegments(split(filename, "/"), split(pattern, "/"))

(***************************************************************************)
(* The world the action runs in: one pull request, its changed files, the  *)
(* comments on it, and the inputs of the workflow.                         *)
(***************************************************************************)

README_md  == <<"R", "E", "A", "D", "M", "E", ".", "m", "d">>
src_app_ts == <<"s", "r", "c", "/", "a", "p", "p", ".", "t", "s">>
app_ts     == <<"a", "p", "p", ".", "t", "s">>
docs_x_ts  == <<"d", "o", "c", "s", "/", "x", ".", "t", "s">>

\* an entry of pulls.listFiles: filename, status and patch
ChangedFile(name, st) == [filename |-> name, status |-> st, patch |-> <<"@@ patch @@">>]

\* the changed-file lists pulls.listFiles may return
ChangedFileLists ==
    { << ChangedFile(README_md, "modified"), ChangedFile(src_app_ts, "added") >>,
      << ChangedFile(src_app_ts, "renamed"), ChangedFile(app_ts, "added") >>,
      << ChangedFile(docs_x_ts, "added"), ChangedFile(app_ts, "removed") >> }

\* values of the ignore_patterns input: empty, and the two rules of the README
\* default "**/*.md,docs/**" written with blanks around the comma
IgnoreInputs ==
    { <<>>,
      <<"*", "*", "/", "*", ".", "m", "d", " ", ",", " ",
        "d", "o", "c", "s", "/", "*", "*">> }

\* $GITHUB_WORKSPACE/.gitignore: whether it exists, and its contents: a comment,
\* the directory rule docs/ and a rule with an unclosed bracket
GitignoreFiles ==
    { [exists |-> FALSE, content |-> <<>>],
      [exists |-> TRUE,  content |-> <<"#", "x", "\n", "d", "o", "c", "s", "/", "\n",
                                       "[", "x", "\n">>] }

\* the pull request the invocations are about: its id and number
PullRequests == { [id |-> 11, number |-> 1] }

\* the pull_request actions that trigger the workflow: main reads none of them,
\* so one action of an open request (new commits pushed) and the closure stand
\* for all
Events == {"synchronize", "closed"}

\* environment and payload as main finds them
\* a value of the memory_id input the README documents
MemoryIdInput == <<"M", "E", "M">>

\* every required value present, the optional memory_id input not set
CompleteConfig ==
    [token |-> TRUE, repo |-> TRUE, hasNumber |-> TRUE, hasId |-> TRUE,
     hasAgentId |-> TRUE, hasAgentAliasId |-> TRUE, memoryIdInput |-> <<>>]

\* the complete configuration, the same with the memory_id input set, and each
\* one with a single required value missing
Configs ==
    { CompleteConfig,
      [CompleteConfig EXCEPT !.memoryIdInput = MemoryIdInput],
      [CompleteConfig EXCEPT !.token = FALSE],
      [CompleteConfig EXCEPT !.repo = FALSE],
      [CompleteConfig EXCEPT !.hasNumber = FALSE],
      [CompleteConfig EXCEPT !.hasId = FALSE],
      [CompleteConfig EXCEPT !.hasAgentId = FALSE],
      [CompleteConfig EXCEPT !.hasAgentAliasId = FALSE] }

\* the action_prompt input
ActionPromptInput == <<" ", "Analyze the changes.", "\n">>

AgentIdInput == <<"AGENT">>
AgentAliasIdInput == <<"ALIAS">>

\* what repos.getContent can answer: a file, something that is not a file
\* (a directory listing, a submodule), or an error
ContentOutcomes == {"file", "notFile", "error"}

\* decoded content of a file returned by repos.getContent
FileContent(name) == <<"source text">>

\* completion streams of the agent, as sequences of decoded chunks: plain text,
\* and text that echoes the full-content heading of a file
Completions ==
    { << <<"Looks ">>, <<"good.">> >>,
      << <<"### Content of ">> \o src_app_ts \o <<"\n'''\n">>, <<"x", "\n'''\n">> >> }

\* what runtimeClient.send can do: reject, answer without a completion, answer
\* with a stream that fails midway, or answer with a full stream
AgentOutcomes ==
    { [kind |-> "sendThrows", chunks |-> <<>>],
      [kind |-> "noCompletion", chunks |-> <<>>],
      [kind |-> "streamFails", chunks |-> << <<"Looks ">> >>] }
    \cup { [kind |-> "ok", chunks |-> c] : c \in Completions }

\* a comment a person wrote on the request before the first run: it quotes a diff
HumanComment ==
    <<"File: ">> \o src_app_ts \o <<" (Status: modified)\n'''diff\n", "@@ patch @@", "\n'''\n">>

ExistingComments == { <<>>, <<HumanComment>> }

\* number of invocations of the action on the request
MaxRuns == 2

VARIABLES
    pr,             \* the pull request: id and number
    prComments,     \* bodies of the comments on the request, at the host
    sessionLog,     \* one entry per InvokeAgentCommand sent, over all runs
    runs,           \* invocations started so far
    pc,             \* where main is: "idle", the await it is suspended at, "done"
    runId,          \* GITHUB_RUN_ID of the current invocation
    event,          \* github.context.payload.action of the current invocation
    config,         \* environment and payload fields of the current invocation
    ignorePatterns, \* the rules of the ignore_patterns input
    allIgnorePatterns,
    prFiles,
    comments,       \* the comments as issues.listComments returned them
    contentResult,  \* per index of prFiles: state of its repos.getContent call
    relevantCode,
    relevantDiffs,
    commands,       \* InvokeAgentCommand inputs sent in the current invocation
    agentResponse,  \* what invokeAgent returned
    commentBody,    \* body handed to issues.createComment
    hostCalls,      \* calls to the GitHub API in the current invocation, in order
    posted,         \* comments created in the current invocation
    failed,         \* messages given to core.setFailed in the current invocation
    warned,         \* core.warning was called (early exit)
    agentOutcome,   \* how runtimeClient.send and the completion stream ended
    thrown,         \* the await of main that rejected, "none" when none did
    buildLog,       \* results of the runs of the change-set builder (SpecBuilder)
    ignoreInput,    \* value of the ignore_patterns input of the current invocation
    wrapperCall,    \* arguments and result of a call of invokeAgent (SpecWrapper)
    postedFiles     \* file names of the changed-file lists of the comments posted

vars == << pr, prComments, sessionLog, runs, pc, runId, event, config,
           ignorePatterns, allIgnorePatterns, prFiles, comments, contentResult,
           relevantCode, relevantDiffs, commands, agentResponse, commentBody,
           hostCalls, posted, failed, warned, agentOutcome, thrown, buildLog,
           ignoreInput, wrapperCall, postedFiles >>

(***************************************************************************)
(* main: inputs and derived values (src/index.js 461-584).                 *)
(***************************************************************************)

\* the input split on commas without trimming the entries, as the earlier main
\* of src/index.js 364 does
splitPatterns_noTrim(input) == filterNonEmpty(split(input, ","))

\* core.getInput('ignore_patterns').split(',').map(trim).filter(Boolean)
splitPatterns(input) == filterNonEmpty(mapTrim(split(input, ",")))

\* Array.prototype.filter(line => line && !line.startsWith('#'))
RECURSIVE filterRules(_)
filterRules(ls) ==
    IF ls = <<>> THEN <<>>
    ELSE IF Head(ls) = <<>> \/ Head(Head(ls)) = "#" THEN filterRules(Tail(ls))
    ELSE <<Head(ls)>> \o filterRules(Tail(ls))

\* the rules read from .gitignore, [] when the file does not exist
gitignorePatterns(file) ==
    IF file.exists THEN filterRules(mapTrim(split(file.content, "\n"))) ELSE <<>>

\* github.context.payload.pull_request.number and .id
prNumber == IF config.hasNumber THEN pr.number ELSE 0
prId == IF config.hasId THEN pr.id ELSE 0

\* a session id taken from GITHUB_RUN_ID, as the earlier main of
\* src/index.js 139 does: not what the current main uses
sessionId_runId == NumToString(runId)

\* a session id without the separator between id and number
sessionId_noSeparator == NumToString(prId) \o NumToString(prNumber)

\* const sessionId = prId + "-" + prNumber (template literal)
sessionId == NumToString(prId) \o <<"-">> \o NumToString(prNumber)

\* const memoryId = prId + "-" + prNumber (template literal)
memoryId == NumToString(prId) \o <<"-">> \o NumToString(prNumber)

actionPrompt == trim(ActionPromptInput)
\* core.getInput answers '' for an input the workflow does not set
agentId == trim(IF config.hasAgentId THEN AgentIdInput ELSE <<>>)
agentAliasId == trim(IF config.hasAgentAliasId THEN AgentAliasIdInput ELSE <<>>)

(***************************************************************************)
(* processFile (src/index.js 587-626).                                     *)
(***************************************************************************)

InScopeStatus == {"added", "modified", "renamed"}

\* allIgnorePatterns.some(pattern => minimatch(filename, pattern))
isIgnored(filename, patterns) ==
    \E i \in 1..Len(patterns) : minimatch(filename, patterns[i])

\* a processFile without the status test
inScope_anyStatus(file, patterns) == ~isIgnored(file.filename, patterns)

\* the file passes the status test and the ignore test
inScope(file, patterns) ==
    /\ file.status \in InScopeStatus
    /\ ~isIgnored(file.filename, patterns)

\* a ledger test that looks for the heading of the file's full content only
alreadyAnalyzed_markerOnly(filename, cs) ==
    \E i \in 1..Len(cs) :
        includes(cs[i], <<"### Content of ">> \o filename \o <<"\n'''\n">>)

\* a ledger test that never answers "already analyzed"
alreadyAnalyzed_never(filename, cs) == FALSE

\* comments.some(comment => comment.body.includes(filename))
alreadyAnalyzed(filename, cs) ==
    \E i \in 1..Len(cs) : includes(cs[i], filename)

\* "### Content of ${filename}\n'''\n${content}\n'''\n"
contentBlock(filename, content) ==
    <<"### Content of ">> \o filename \o <<"\n'''\n">> \o content \o <<"\n'''\n">>

\* "File: ${filename} (Status: ${status})\n'''diff\n${file.patch}\n'''\n"
diffBlock(file) ==
    <<"File: ">> \o file.filename \o <<" (Status: ", file.status, ")\n'''diff\n">>
        \o file.patch \o <<"\n'''\n">>

\* the synchronous part of processFile over prFiles.map: the diff blocks pushed
\* before any await, in the order of prFiles
RECURSIVE syncDiffs(_, _, _)
syncDiffs(files, patterns, cs) ==
    IF files = <<>> THEN <<>>
    ELSE (IF inScope(Head(files), patterns) /\ alreadyAnalyzed(Head(files).filename, cs)
          THEN <<diffBlock(Head(files))>> ELSE <<>>)
         \o syncDiffs(Tail(files), patterns, cs)

\* a processFile that requests the content of every changed file
RECURSIVE contentRequests_everyFile(_, _, _)
contentRequests_everyFile(files, patterns, cs) ==
    IF files = <<>> THEN <<>>
    ELSE << [api |-> "getContent", path |-> Head(files).filename] >>
         \o contentRequests_everyFile(Tail(files), patterns, cs)

\* the repos.getContent calls issued by prFiles.map, in the order of prFiles
RECURSIVE contentRequests(_, _, _)
contentRequests(files, patterns, cs) ==
    IF files = <<>> THEN <<>>
    ELSE (IF inScope(Head(files), patterns) /\ ~alreadyAnalyzed(Head(files).filename, cs)
          THEN << [api |-> "getContent", path |-> Head(files).filename] >> ELSE <<>>)
         \o contentRequests(Tail(files), patterns, cs)

\* state of the getContent call of each file once prFiles.map has run
initialContentResult(files, patterns, cs) ==
    [ i \in 1..Len(files) |->
        IF inScope(files[i], patterns) /\ ~alreadyAnalyzed(files[i].filename, cs)
        THEN "pending" ELSE "notRequested" ]

\* a processFile without the try/catch around getContent, as the earlier
\* main of src/index.js 105-111: the error rejects the run
fetchErrorIsFatal_yes(outcome) == outcome = "error"

\* getContent is awaited inside try/catch: its error is logged with core.error
\* and processFile goes on (606-621)
fetchErrorIsFatal(outcome) == FALSE

\* a processFile that pushes the diff block only when no content was pushed
diffPushed_withoutContentOnly(file, outcome) ==
    IF outcome = "file" THEN <<>> ELSE << diffBlock(file) >>

\* what processFile pushes to relevantDiffs after the try/catch around
\* getContent: the diff block, whatever the answer was (624)
diffPushed(file, outcome) == << diffBlock(file) >>

\* a processFile that pushes a content block whatever getContent answered
codePushed_always(file, outcome) ==
    << contentBlock(file.filename, FileContent(file.filename)) >>

\* what processFile pushes to relevantCode when getContent answers: a content
\* block when the answer is a file (614-618), nothing otherwise
codePushed(file, outcome) ==
    IF outcome = "file"
    THEN << contentBlock(file.filename, FileContent(file.filename)) >>
    ELSE <<>>

(***************************************************************************)
(* Prompt, agent command and comment.                                      *)
(***************************************************************************)

\* a content section built whether or not a content block was collected
codePrompt_always(code) ==
    <<"## Content of Affected Files:\n\n">> \o join(code)
        \o <<"\nUse the files above to provide context on the changes made in this PR.">>

\* the content section: '' when relevantCode is empty (545-548)
codePrompt(code) ==
    IF Len(code) > 0
    THEN <<"## Content of Affected Files:\n\n">> \o join(code)
         \o <<"\nUse the files above to provide context on the changes made in this PR.">>
    ELSE <<>>

diffsPrompt(diffs) == <<"## Relevant Changes to the PR:\n\n">> \o join(diffs) \o <<"\n">>

prompt(code, diffs) ==
    codePrompt(code) \o <<"\n">> \o diffsPrompt(diffs) \o <<"\n">> \o actionPrompt
        \o <<"\nFormat your response using Markdown, including appropriate headers and code blocks where relevant.">>

\* the command of the earlier wrapper (src/bedrock-wrapper.js 79-85): the input
\* text is always the prompt and the session is never ended
InvokeAgentCommand_promptOnly(aId, aliasId, sId, promptText, mId, endSession) ==
    [ agentId      |-> aId,
      agentAliasId |-> aliasId,
      sessionId    |-> sId,
      inputText    |-> promptText,
      hasMemoryId  |-> mId # <<>>,
      memoryId     |-> mId,
      endSession   |-> FALSE ]

\* the input of InvokeAgentCommand built by invokeAgent
\* (src/unnamed/part_001 102-114); memoryId is left out when it is empty
InvokeAgentCommand(aId, aliasId, sId, promptText, mId, endSession) ==
    [ agentId      |-> aId,
      agentAliasId |-> aliasId,
      sessionId    |-> sId,
      inputText    |-> IF endSession THEN <<"Goodbye.">> ELSE promptText,
      hasMemoryId  |-> mId # <<>>,
      memoryId     |-> mId,
      endSession   |-> endSession ]

\* prFiles.map(file => "- **${file.filename}**: ${file.status}").join('\n')
fileSummary(files) ==
    joinWith([ i \in 1..Len(files) |->
                 <<"- **">> \o files[i].filename \o <<"**: ", files[i].status>> ],
             <<"\n">>)

\* a formatter that reports the number of changed files for both counts
formatMarkdownComment_countsFiles(response, number, filesAnalyzed, diffsAnalyzed, files) ==
    <<"## Analysis for Pull Request #">> \o NumToString(number)
        \o <<"\n\n### Files Analyzed: ">> \o NumToString(Len(files))
        \o <<"\n### Diffs Analyzed: ">> \o NumToString(Len(files))
        \o <<"\n\n### Files in the PR:\n">> \o fileSummary(files)
        \o <<"\n\n">> \o response

formatMarkdownComment(response, number, filesAnalyzed, diffsAnalyzed, files) ==
    <<"## Analysis for Pull Request #">> \o NumToString(number)
        \o <<"\n\n### Files Analyzed: ">> \o NumToString(filesAnalyzed)
        \o <<"\n### Diffs Analyzed: ">> \o NumToString(diffsAnalyzed)
        \o <<"\n\n### Files in the PR:\n">> \o fileSummary(files)
        \o <<"\n\n">> \o response

(***************************************************************************)
(* The invocation as a state machine.  main runs from one await to the     *)
(* next in one step; the per-file getContent calls complete in any order.  *)
(***************************************************************************)

MissingEnvMessage ==
    <<"Error: Missing required environment variables: GITHUB_TOKEN or GITHUB_REPOSITORY.">>

MissingInfoMessage == <<"Error: Missing required information to post a comment.">>

\* what the two validations of main give to core.setFailed (466-469, 486-489)
validationFailure(cfg) ==
    IF ~cfg.token \/ ~cfg.repo THEN <<MissingEnvMessage>>
    ELSE IF ~cfg.hasNumber \/ ~cfg.hasId THEN <<MissingInfoMessage>>
    ELSE <<>>

\* a validation that signals the failure and lets main go on
returnsAfterSetFailed_no(cfg) == FALSE

\* each validation returns from main right after core.setFailed (468, 488)
returnsAfterSetFailed(cfg) == TRUE

\* a catch that signals the failure without a message
catchMessage_none(errorMessage) == <<>>

\* the message main's catch gives to core.setFailed; the timestamp is a token
catchMessage(errorMessage) == <<"[timestamp] Error: ">> \o errorMessage

\* message of the Error invokeAgent throws from its catch (141-145)
invokeAgentError(kind) ==
    <<"Error: ", "Failed to invoke Bedrock agent", ": ">>
        \o (IF kind = "noCompletion" THEN <<"Completion is undefined">> ELSE <<"service error">>)

\* a main that never takes the early exit
noRelevantFiles_never(code, diffs) == FALSE

\* relevantDiffs.length === 0 && relevantCode.length === 0 (535)
noRelevantFiles(code, diffs) == Len(diffs) = 0 /\ Len(code) = 0

\* the endSession argument of main's call of invokeAgent: the call at 561
\* passes five arguments, so the parameter takes its default, false
endSessionArgument == FALSE

\* the request cannot be built when agentId or agentAliasId is empty: send
\* rejects before anything reaches the service (part_001 107-119)
sendRejects(command) == command.agentId = <<>> \/ command.agentAliasId = <<>>

\* a caller that sends the command a second time when the first call failed
retryAgentCall_once(outcome, attempts) == outcome.kind # "ok" /\ attempts < 2

\* main calls invokeAgent once, outside any loop (561), and invokeAgent sends
\* its command once (part_001 116-145): a failed call is not repeated
retryAgentCall(outcome, attempts) == FALSE

\* a loop that keeps the last chunk only
completionOf_lastChunk(chunks) == IF chunks = <<>> THEN <<>> ELSE chunks[Len(chunks)]

\* completion += decodedResponse for every chunk of the stream, in the order of
\* arrival (part_001 127-133)
completionOf(chunks) == join(chunks)

\* a main that takes any end of the call for a response
invokeAgentReturns_always(outcome) == TRUE

\* an invokeAgent that gives back what it received when the stream breaks
invokeAgentReturns_partial(outcome) == outcome.kind \in {"ok", "streamFails"}

\* invokeAgent returns the completion when send resolved, the response has a
\* completion and the stream was read to its end; it throws otherwise
\* (part_001 116-145)
invokeAgentReturns(outcome) == outcome.kind = "ok"

hostCall(name) == [api |-> name, path |-> <<>>]

pending == { i \in DOMAIN contentResult : contentResult[i] = "pending" }

\* a main that goes on without awaiting the per-file promises
allSettled_notAwaited(results) == TRUE

\* await Promise.all(prFiles.map(processFile)) resolves when every processFile
\* has ended, that is when no getContent call is in flight (528-532)
allSettled(results) == \A i \in DOMAIN results : results[i] # "pending"

\* no call of invokeAgent recorded
NoCall == [args |-> <<>>, state |-> "none", received |-> <<>>, value |-> <<>>]

Init ==
    /\ pr \in PullRequests
    /\ prComments \in ExistingComments
    /\ sessionLog = <<>>
    /\ runs = 0
    /\ pc = "idle"
    /\ runId = 0
    /\ event = "none"
    /\ config = CompleteConfig
    /\ ignorePatterns = <<>>
    /\ allIgnorePatterns = <<>>
    /\ prFiles = <<>>
    /\ comments = <<>>
    /\ contentResult = <<>>
    /\ relevantCode = <<>>
    /\ relevantDiffs = <<>>
    /\ commands = <<>>
    /\ agentResponse = <<>>
    /\ commentBody = <<>>
    /\ hostCalls = <<>>
    /\ posted = 0
    /\ failed = <<>>
    /\ warned = FALSE
    /\ agentOutcome = "none"
    /\ thrown = "none"
    /\ buildLog = <<>>
    /\ ignoreInput = <<>>
    /\ wrapperCall = NoCall
    /\ postedFiles = {}

\* The workflow starts the action for a pull_request event; main runs to its
\* first await, pulls.listFiles, or returns on a validation failure (461-499).
Trigger(ev, cfg, input) ==
    /\ pc \in {"idle", "done"}
    /\ runs < MaxRuns
    /\ runs' = runs + 1
    /\ runId' = runs + 1
    /\ event' = ev
    /\ config' = cfg
    /\ ignorePatterns' = IF cfg.token /\ cfg.repo THEN splitPatterns(input) ELSE <<>>
    /\ allIgnorePatterns' = <<>>
    /\ prFiles' = <<>>
    /\ comments' = <<>>
    /\ contentResult' = <<>>
    /\ relevantCode' = <<>>
    /\ relevantDiffs' = <<>>
    /\ commands' = <<>>
    /\ agentResponse' = <<>>
    /\ commentBody' = <<>>
    /\ posted' = 0
    /\ warned' = FALSE
    /\ failed' = validationFailure(cfg)
    /\ IF validationFailure(cfg) # <<>> /\ returnsAfterSetFailed(cfg)
       THEN /\ hostCalls' = <<>>
            /\ pc' = "done"
       ELSE /\ hostCalls' = <<hostCall("listFiles")>>
            /\ pc' = "listFiles"
    /\ agentOutcome' = "none"
    /\ thrown' = "none"
    /\ ignoreInput' = IF cfg.token /\ cfg.repo THEN input ELSE <<>>
    /\ UNCHANGED << pr, prComments, sessionLog, buildLog, wrapperCall, postedFiles >>

\* pulls.listFiles answers; main reads .gitignore, joins the two rule lists
\* and calls issues.listComments (494-525).
ListFilesReturn(files, gitignore) ==
    /\ pc = "listFiles"
    /\ prFiles' = files
    /\ allIgnorePatterns' = ignorePatterns \o gitignorePatterns(gitignore)
    /\ hostCalls' = Append(hostCalls, hostCall("listComments"))
    /\ pc' = "listComments"
    /\ UNCHANGED << pr, prComments, sessionLog, runs, runId, event, config,
                    ignorePatterns, comments, contentResult, relevantCode,
                    relevantDiffs, commands, agentResponse, commentBody, posted,
                    failed, warned, agentOutcome, thrown, buildLog,
                    ignoreInput, wrapperCall, postedFiles >>

\* issues.listComments answers; prFiles.map runs processFile on every file up
\* to its first await: files out of scope return, files found in a comment
\* push their diff block, the others call repos.getContent (527-532, 587-612).
ListCommentsReturn ==
    /\ pc = "listComments"
    /\ comments' = prComments
    /\ relevantCode' = <<>>
    /\ relevantDiffs' = syncDiffs(prFiles, allIgnorePatterns, prComments)
    /\ contentResult' = initialContentResult(prFiles, allIgnorePatterns, prComments)
    /\ hostCalls' = hostCalls \o contentRequests(prFiles, allIgnorePatterns, prComments)
    /\ pc' = "processFiles"
    /\ UNCHANGED << pr, prComments, sessionLog, runs, runId, event, config,
                    ignorePatterns, allIgnorePatterns, prFiles, commands,
                    agentResponse, commentBody, posted, failed, warned,
                    agentOutcome, thrown, buildLog,
                    ignoreInput, wrapperCall, postedFiles >>

\* repos.getContent of file i answers or fails; processFile goes on to its end
\* (606-625), wherever main is.
GetContentReturn(i, outcome) ==
    /\ pc # "idle"
    /\ i \in pending
    /\ contentResult' = [contentResult EXCEPT ![i] = outcome]
    /\ IF fetchErrorIsFatal(outcome)
       THEN /\ failed' = Append(failed, catchMessage(<<"HttpError">>))
            /\ pc' = "done"
            /\ UNCHANGED << relevantCode, relevantDiffs >>
       ELSE /\ relevantCode' = relevantCode \o codePushed(prFiles[i], outcome)
            /\ relevantDiffs' = relevantDiffs \o diffPushed(prFiles[i], outcome)
            /\ UNCHANGED << failed, pc >>
    /\ UNCHANGED << pr, prComments, sessionLog, runs, runId, event, config,
                    ignorePatterns, allIgnorePatterns, prFiles, comments, commands,
                    agentResponse, commentBody, hostCalls, posted, warned,
                    agentOutcome, thrown, buildLog,
                    ignoreInput, wrapperCall, postedFiles >>

\* Promise.all resolves once every processFile has ended; main exits early or
\* builds the prompt and calls invokeAgent, which sends the command (534-561,
\* part_001 102-119).
Join ==
    /\ pc = "processFiles"
    /\ allSettled(contentResult)
    /\ IF noRelevantFiles(relevantCode, relevantDiffs)
       THEN /\ warned' = TRUE
            /\ pc' = "done"
            /\ UNCHANGED << commands, sessionLog >>
       ELSE /\ commands' = Append(commands,
                   InvokeAgentCommand(agentId, agentAliasId, sessionId,
                                      prompt(relevantCode, relevantDiffs),
                                      memoryId, endSessionArgument))
            /\ sessionLog' = Append(sessionLog,
                   [runId |-> runId, prId |-> prId, prNumber |-> prNumber,
                    sessionId |-> sessionId, endSession |-> endSessionArgument])
            /\ pc' = "invokeAgent"
            /\ UNCHANGED warned
    /\ UNCHANGED << pr, prComments, runs, runId, event, config, ignorePatterns,
                    allIgnorePatterns, prFiles, comments, contentResult,
                    relevantCode, relevantDiffs, agentResponse, commentBody,
                    hostCalls, posted, failed, agentOutcome, thrown, buildLog,
                    ignoreInput, wrapperCall, postedFiles >>

\* The agent answers: invokeAgent returns the joined chunks or throws; main
\* formats the comment and calls issues.createComment, or lands in its catch
\* (561-576, part_001 116-145).
InvokeAgentReturn(outcome) ==
    /\ pc = "invokeAgent"
    /\ sendRejects(commands[Len(commands)]) => outcome.kind = "sendThrows"
    /\ agentOutcome' = outcome.kind
    /\ IF invokeAgentReturns(outcome)
       THEN /\ agentResponse' = completionOf(outcome.chunks)
            /\ commentBody' = formatMarkdownComment(completionOf(outcome.chunks), prNumber,
                                  Len(relevantCode), Len(relevantDiffs), prFiles)
            /\ hostCalls' = Append(hostCalls, hostCall("createComment"))
            /\ pc' = "createComment"
            /\ UNCHANGED << failed, thrown, commands, sessionLog >>
       ELSE IF retryAgentCall(outcome, Len(commands))
       THEN /\ commands' = Append(commands, commands[Len(commands)])
            /\ sessionLog' = Append(sessionLog, sessionLog[Len(sessionLog)])
            /\ UNCHANGED << failed, thrown, agentResponse, commentBody, hostCalls, pc >>
       ELSE /\ failed' = Append(failed, catchMessage(invokeAgentError(outcome.kind)))
            /\ thrown' = "invokeAgent"
            /\ pc' = "done"
            /\ UNCHANGED << agentResponse, commentBody, hostCalls, commands, sessionLog >>
    /\ UNCHANGED << pr, prComments, runs, runId, event, config,
                    ignorePatterns, allIgnorePatterns, prFiles, comments,
                    contentResult, relevantCode, relevantDiffs, posted,
                    warned, buildLog,
                    ignoreInput, wrapperCall, postedFiles >>

\* issues.createComment succeeds: the comment is on the request (571-578).
CreateCommentReturn ==
    /\ pc = "createComment"
    /\ prComments' = Append(prComments, commentBody)
    /\ postedFiles' = postedFiles \cup { prFiles[i].filename : i \in DOMAIN prFiles }
    /\ posted' = posted + 1
    /\ pc' = "done"
    /\ UNCHANGED << pr, sessionLog, runs, runId, event, config, ignorePatterns,
                    allIgnorePatterns, prFiles, comments, contentResult,
                    relevantCode, relevantDiffs, commands, agentResponse,
                    commentBody, hostCalls, failed, warned, agentOutcome, thrown,
                    buildLog, ignoreInput, wrapperCall >>

\* A call to the GitHub API awaited by main directly rejects: main's catch
\* calls core.setFailed (580-583).
HostCallThrows ==
    /\ pc \in {"listFiles", "listComments", "createComment"}
    /\ failed' = Append(failed, catchMessage(<<"HttpError">>))
    /\ thrown' = pc
    /\ pc' = "done"
    /\ UNCHANGED << pr, prComments, sessionLog, runs, runId, event, config,
                    ignorePatterns, allIgnorePatterns, prFiles, comments,
                    contentResult, relevantCode, relevantDiffs, commands,
                    agentResponse, commentBody, hostCalls, posted, warned,
                    agentOutcome, buildLog,
                    ignoreInput, wrapperCall, postedFiles >>

Next ==
    \/ \E ev \in Events, cfg \in Configs, input \in IgnoreInputs : Trigger(ev, cfg, input)
    \/ \E files \in ChangedFileLists, gitignore \in GitignoreFiles :
           ListFilesReturn(files, gitignore)
    \/ ListCommentsReturn
    \/ \E i \in DOMAIN contentResult, outcome \in ContentOutcomes :
           GetContentReturn(i, outcome)
    \/ Join
    \/ \E outcome \in AgentOutcomes : InvokeAgentReturn(outcome)
    \/ CreateCommentReturn
    \/ HostCallThrows

Spec == Init /\ [][Next]_vars

(***************************************************************************)
(* The derivation of the session id on its own: invocations on arbitrary   *)
(* pull requests, each reduced to the step that derives the session id of  *)
(* its request and sends it to the agent (540-561).                        *)
(***************************************************************************)

\* largest pull-request id and number drawn
MaxPrField == 11

DeriveSession(id, number) ==
    /\ Len(sessionLog) < 2
    /\ pr' = [id |-> id, number |-> number]
    /\ runs' = runs + 1
    /\ runId' = runs + 1
    /\ UNCHANGED << prComments, pc, event, config, ignorePatterns,
                    allIgnorePatterns, prFiles, comments, contentResult,
                    relevantCode, relevantDiffs, commands, agentResponse,
                    commentBody, hostCalls, posted, failed, warned, agentOutcome,
                    thrown, buildLog,
                    ignoreInput, wrapperCall, postedFiles >>
    /\ sessionLog' = Append(sessionLog,
           [runId |-> runId', prId |-> prId', prNumber |-> prNumber',
            sessionId |-> sessionId', endSession |-> endSessionArgument])

NextKeys == \E id \in 1..MaxPrField, number \in 1..MaxPrField : DeriveSession(id, number)

SpecKeys == Init /\ [][NextKeys]_vars

(***************************************************************************)
(* The reading of the ignore_patterns input on its own (472-475), for      *)
(* every input over a small alphabet and for the default of the README.    *)
(***************************************************************************)

\* largest length of the inputs drawn
MaxInputLen == 4

InputAlphabet == {"a", ",", " "}

\* the default of the ignore_patterns input (src/README.md 194)
DefaultIgnoreInput ==
    <<"*", "*", "/", "*", ".", "m", "d", ",", "d", "o", "c", "s", "/", "*", "*", ",",
      ".", "g", "i", "t", "h", "u", "b", "/", "*", "*">>

PatternInputs ==
    UNION { [1..n -> InputAlphabet] : n \in 0..MaxInputLen } \cup {DefaultIgnoreInput}

\* main reads the input and splits it into rules
ReadIgnorePatterns(input) ==
    /\ pc = "idle"
    /\ ignoreInput' = input
    /\ ignorePatterns' = splitPatterns(input)
    /\ UNCHANGED << pr, prComments, sessionLog, runs, pc, runId, event, config,
                    allIgnorePatterns, prFiles, comments, contentResult,
                    relevantCode, relevantDiffs, commands, agentResponse,
                    commentBody, hostCalls, posted, failed, warned, agentOutcome,
                    thrown, buildLog, wrapperCall, postedFiles >>

NextPatterns == \E input \in PatternInputs : ReadIgnorePatterns(input)

SpecPatterns == Init /\ [][NextPatterns]_vars

(***************************************************************************)
(* invokeAgent on its own (part_001 102-146): a call with any arguments,   *)
(* the end-of-session flag included, and the answer of the service.        *)
(***************************************************************************)

WrapperSessionIds == { <<"1", "1", "-", "1">>, <<"7">> }
WrapperPrompts == { <<>>, <<"Analyze the changes.">>, <<"Goodbye.">> }
WrapperMemoryIds == { <<>>, <<"1", "1", "-", "1">> }

\* invokeAgent is called: it builds its command and sends it (102-119)
WrapperInvoke(sId, promptText, mId, endSession) ==
    /\ pc = "idle"
    /\ wrapperCall.state = "none"
    /\ wrapperCall' = [ args |-> [ sessionId |-> sId, prompt |-> promptText,
                                  memoryId |-> mId, endSession |-> endSession ],
                        state |-> "sent", received |-> <<>>, value |-> <<>> ]
    /\ commands' = << InvokeAgentCommand(agentId, agentAliasId, sId, promptText,
                                         mId, endSession) >>
    /\ UNCHANGED << pr, prComments, sessionLog, runs, pc, runId, event, config,
                    ignorePatterns, allIgnorePatterns, prFiles, comments,
                    contentResult, relevantCode, relevantDiffs, agentResponse,
                    commentBody, hostCalls, posted, failed, warned, agentOutcome,
                    thrown, buildLog, ignoreInput, postedFiles >>

\* send answers or rejects, the stream is read; invokeAgent returns the
\* completion or throws from its catch (116-145)
WrapperSendReturn(outcome) ==
    /\ wrapperCall.state = "sent"
    /\ agentOutcome' = outcome.kind
    /\ wrapperCall' =
           IF invokeAgentReturns(outcome)
           THEN [ wrapperCall EXCEPT !.state = "returned",
                                     !.received = outcome.chunks,
                                     !.value = completionOf(outcome.chunks) ]
           ELSE [ wrapperCall EXCEPT !.state = "threw",
                                     !.received = outcome.chunks,
                                     !.value = invokeAgentError(outcome.kind) ]
    /\ UNCHANGED << pr, prComments, sessionLog, runs, pc, runId, event, config,
                    ignorePatterns, allIgnorePatterns, prFiles, comments,
                    contentResult, relevantCode, relevantDiffs, commands,
                    agentResponse, commentBody, hostCalls, posted, failed, warned,
                    thrown, buildLog, ignoreInput, postedFiles >>

NextWrapper ==
    \/ \E sId \in WrapperSessionIds, promptText \in WrapperPrompts,
          mId \in WrapperMemoryIds, endSession \in BOOLEAN :
           WrapperInvoke(sId, promptText, mId, endSession)
    \/ \E outcome \in AgentOutcomes : WrapperSendReturn(outcome)

SpecWrapper == Init /\ [][NextWrapper]_vars

(***************************************************************************)
(* The change-set builder on its own: listComments has been called for a   *)
(* given changed-file list and rule list; prFiles.map(processFile) runs,   *)
(* its getContent calls complete in any order, Promise.all resolves, and   *)
(* the builder is run again on the same changed-file list and comments     *)
(* (527-532, 587-626).                                                     *)
(***************************************************************************)

\* number of runs of the builder on the same inputs
MaxBuilds == 2

InitBuilder ==
    /\ pr \in PullRequests
    /\ prComments \in ExistingComments
    /\ sessionLog = <<>>
    /\ runs = 1
    /\ pc = "listComments"
    /\ runId = 1
    /\ event = "synchronize"
    /\ config = CompleteConfig
    /\ ignoreInput \in IgnoreInputs
    /\ ignorePatterns = splitPatterns(ignoreInput)
    /\ \E gitignore \in GitignoreFiles :
           allIgnorePatterns = ignorePatterns \o gitignorePatterns(gitignore)
    /\ prFiles \in ChangedFileLists
    /\ comments = <<>>
    /\ contentResult = <<>>
    /\ relevantCode = <<>>
    /\ relevantDiffs = <<>>
    /\ commands = <<>>
    /\ agentResponse = <<>>
    /\ commentBody = <<>>
    /\ hostCalls = <<hostCall("listFiles"), hostCall("listComments")>>
    /\ posted = 0
    /\ failed = <<>>
    /\ warned = FALSE
    /\ agentOutcome = "none"
    /\ thrown = "none"
    /\ buildLog = <<>>
    /\ wrapperCall = NoCall
    /\ postedFiles = {}

\* Promise.all resolves: the two collections are the result of the builder;
\* the builder is then started again on the same inputs.
BuilderReturn ==
    /\ pc = "processFiles"
    /\ allSettled(contentResult)
    /\ Len(buildLog) < MaxBuilds
    /\ buildLog' = Append(buildLog,
           [ files      |-> prFiles,
             ledger     |-> comments,
             fetched    |-> contentResult,
             codeBlocks |-> relevantCode,
             diffBlocks |-> relevantDiffs ])
    /\ hostCalls' = <<hostCall("listFiles"), hostCall("listComments")>>
    /\ pc' = "listComments"
    /\ UNCHANGED << pr, prComments, sessionLog, runs, runId, event, config,
                    ignorePatterns, allIgnorePatterns, prFiles, comments,
                    contentResult, relevantCode, relevantDiffs, commands,
                    agentResponse, commentBody, posted, failed, warned,
                    agentOutcome, thrown, ignoreInput, wrapperCall, postedFiles >>

NextBuilder ==
    \/ ListCommentsReturn
    \/ \E i \in DOMAIN contentResult, outcome \in ContentOutcomes :
           GetContentReturn(i, outcome)
    \/ BuilderReturn

SpecBuilder == InitBuilder /\ [][NextBuilder]_vars

(***************************************************************************)
(* Properties.                                                             *)
(***************************************************************************)

countOf(seq, x) == Cardinality({ k \in DOMAIN seq : seq[k] = x })

called(name) == \E k \in DOMAIN hostCalls : hostCalls[k].api = name

\* prFiles.map has run processFile on every file up to its first await
mapped ==
    \/ pc \in {"processFiles", "invokeAgent", "createComment"}
    \/ pc = "done" /\ contentResult # <<>>

\* Promise.all has resolved and main has gone on
joined ==
    \/ pc \in {"invokeAgent", "createComment"}
    \/ pc = "done" /\ (warned \/ commands # <<>>)

\* the heading and opening fence that present a file's full content
fullContentMarker(filename) == <<"### Content of ">> \o filename \o <<"\n'''\n">>

markerInComments(filename, cs) ==
    \E k \in DOMAIN cs : includes(cs[k], fullContentMarker(filename))

statusInScope(i) == prFiles[i].status \in {"added", "modified", "renamed"}

matchesIgnoreRule(i) ==
    \E k \in DOMAIN allIgnorePatterns : minimatch(prFiles[i].filename, allIgnorePatterns[k])

fileInScope(i) == statusInScope(i) /\ ~matchesIgnoreRule(i)

contentBlocksOf(i) ==
    countOf(relevantCode, contentBlock(prFiles[i].filename, FileContent(prFiles[i].filename)))

diffBlocksOf(i) == countOf(relevantDiffs, diffBlock(prFiles[i]))

endSessionCalls == Cardinality({ k \in DOMAIN commands : commands[k].endSession })

\* C1 (as claimed): an invocation for a closure event posts no comment and,
\* when it ends without a failure, has made exactly one end-of-session call.
C1_ClosurePostsNothingAndEndsSession ==
    event = "closed" =>
        /\ posted = 0
        /\ ~called("createComment")
        /\ (pc = "done" /\ failed = <<>>) => endSessionCalls = 1

\* C2 (as claimed): an invocation for a closure event lists no changed files,
\* fetches no content, sends no analysis prompt, and every command it sends is
\* an end-of-session command carrying the session id of the request.
C2_ClosureDoesNoAnalysis ==
    event = "closed" =>
        /\ ~called("listFiles")
        /\ ~called("getContent")
        /\ \A k \in DOMAIN commands :
               /\ commands[k].endSession
               /\ commands[k].sessionId = sessionId

\* C3: all commands sent for the same pull request, whatever invocation (run
\* id) sent them, carry the same session id.
C3_SameRequestSameSession ==
    /\ \A a, b \in DOMAIN sessionLog :
           (sessionLog[a].prId = sessionLog[b].prId
              /\ sessionLog[a].prNumber = sessionLog[b].prNumber)
           => sessionLog[a].sessionId = sessionLog[b].sessionId
    /\ \A k \in DOMAIN commands :
           sessionLog # <<>> /\ commands[k].sessionId = sessionLog[1].sessionId

\* C3 witness: two invocations with different run ids have each sent a command
\* for the same request.
C3_Witness ==
    /\ Len(sessionLog) = 2
    /\ sessionLog[1].runId # sessionLog[2].runId
    /\ sessionLog[1].prId = sessionLog[2].prId
    /\ sessionLog[1].prNumber = sessionLog[2].prNumber

\* C4: the session id contains the digits of the request's id and of its
\* number, and two requests that differ in id or in number get different
\* session ids.
C4_SessionIdInjective ==
    /\ \A a \in DOMAIN sessionLog :
           /\ includes(sessionLog[a].sessionId, NumToString(sessionLog[a].prId))
           /\ includes(sessionLog[a].sessionId, NumToString(sessionLog[a].prNumber))
    /\ \A a, b \in DOMAIN sessionLog :
           (sessionLog[a].prId # sessionLog[b].prId
              \/ sessionLog[a].prNumber # sessionLog[b].prNumber)
           => sessionLog[a].sessionId # sessionLog[b].sessionId

\* C4 witness: session ids were derived for request (id 1, number 11) and for
\* request (id 11, number 1), whose digits agree when written without a gap.
C4_Witness ==
    /\ Len(sessionLog) = 2
    /\ sessionLog[1].prId = 1 /\ sessionLog[1].prNumber = 11
    /\ sessionLog[2].prId = 11 /\ sessionLog[2].prNumber = 1

\* C5: when a comment on the request contains the full-content marker of an
\* in-scope file, the invocation requests no content for it, adds no content
\* block for it and adds its diff block.
C5_LedgerMonotonicity ==
    mapped =>
        \A i \in DOMAIN prFiles :
            (fileInScope(i) /\ markerInComments(prFiles[i].filename, comments))
            => /\ contentResult[i] = "notRequested"
               /\ contentBlocksOf(i) = 0
               /\ diffBlocksOf(i) = 1

\* C5 witness: a second invocation has ended on a request whose comments hold
\* the marker of an in-scope file, with the diff block of that file collected.
C5_Witness ==
    /\ pc = "done"
    /\ runs = 2
    /\ joined
    /\ \E i \in DOMAIN prFiles :
           /\ fileInScope(i)
           /\ markerInComments(prFiles[i].filename, comments)
           /\ diffBlocksOf(i) = 1

\* C6 (as claimed): an in-scope file is treated as already analyzed (no content
\* requested, diff only) only if a comment contains its full-content marker.
C6_LedgerOnlyByMarker ==
    mapped =>
        \A i \in DOMAIN prFiles :
            (fileInScope(i) /\ contentResult[i] = "notRequested")
            => markerInComments(prFiles[i].filename, comments)

\* C7 (as claimed): once all files are processed, every in-scope file has
\* exactly one diff block; one found in the comments has no content block and
\* no content request; any other has a content request and a content block.
C7_ContentBlockForEveryNewFile ==
    joined =>
        \A i \in DOMAIN prFiles :
            fileInScope(i) =>
                /\ diffBlocksOf(i) = 1
                /\ IF alreadyAnalyzed(prFiles[i].filename, comments)
                   THEN contentResult[i] = "notRequested" /\ contentBlocksOf(i) = 0
                   ELSE contentResult[i] \in ContentOutcomes /\ contentBlocksOf(i) = 1

\* C7 (amended): as C7, but a file not found in the comments gets a content
\* block exactly when its content request answered with a file.
C7_ContentBlockIffFetched ==
    joined =>
        \A i \in DOMAIN prFiles :
            fileInScope(i) =>
                /\ diffBlocksOf(i) = 1
                /\ IF alreadyAnalyzed(prFiles[i].filename, comments)
                   THEN contentResult[i] = "notRequested" /\ contentBlocksOf(i) = 0
                   ELSE /\ contentResult[i] \in ContentOutcomes
                        /\ contentBlocksOf(i) = (IF contentResult[i] = "file" THEN 1 ELSE 0)

\* C7 witness: all files are processed; one in-scope file was fetched as a file
\* and has its content block and its diff block, another had a fetch that did
\* not answer with a file and has its diff block only.
C7_Witness ==
    /\ joined
    /\ \E i \in DOMAIN prFiles :
           /\ fileInScope(i)
           /\ ~alreadyAnalyzed(prFiles[i].filename, comments)
           /\ contentResult[i] = "file"
           /\ contentBlocksOf(i) = 1
           /\ diffBlocksOf(i) = 1
    /\ \E i \in DOMAIN prFiles :
           /\ fileInScope(i)
           /\ contentResult[i] \in {"error", "notFile"}
           /\ contentBlocksOf(i) = 0
           /\ diffBlocksOf(i) = 1

\* C8: a file whose status is not added, modified or renamed, or whose path
\* matches an ignore rule, has no content request, no content block and no diff
\* block; with the rules **/*.md and docs/** and the files README.md (modified)
\* and src/app.ts (added), the blocks collected are those of src/app.ts alone.
C8_OutOfScopeContributesNothing ==
    /\ mapped =>
           \A i \in DOMAIN prFiles :
               (~statusInScope(i) \/ matchesIgnoreRule(i))
               => /\ contentResult[i] = "notRequested"
                  /\ contentBlocksOf(i) = 0
                  /\ diffBlocksOf(i) = 0
    /\ ( /\ joined
         /\ allIgnorePatterns = << <<"*", "*", "/", "*", ".", "m", "d">>,
                                   <<"d", "o", "c", "s", "/", "*", "*">> >>
         /\ prFiles = << ChangedFile(README_md, "modified"),
                         ChangedFile(src_app_ts, "added") >> )
       => /\ relevantDiffs = << diffBlock(ChangedFile(src_app_ts, "added")) >>
          /\ contentResult[1] = "notRequested"
          /\ \A k \in DOMAIN relevantCode :
                 relevantCode[k] = contentBlock(src_app_ts, FileContent(src_app_ts))

\* C8 witness: the example has run to the end of processing, and so has an
\* invocation with a file of status removed.
C8_Witness ==
    /\ joined
    /\ allIgnorePatterns = << <<"*", "*", "/", "*", ".", "m", "d">>,
                              <<"d", "o", "c", "s", "/", "*", "*">> >>
    /\ prFiles = << ChangedFile(README_md, "modified"), ChangedFile(src_app_ts, "added") >>
    /\ relevantDiffs = << diffBlock(ChangedFile(src_app_ts, "added")) >>
    /\ relevantCode = << contentBlock(src_app_ts, FileContent(src_app_ts)) >>

\* C9: a failing content request signals no failure and does not end the run:
\* nothing fails while files are processed, processing ends only when no
\* request is in flight, the failing file has its diff block, every file
\* fetched has its content and diff block, and a failure, if any, comes after
\* the agent was called.
C9_FetchFailureIsLocal ==
    /\ pc = "processFiles" => failed = <<>>
    /\ (mapped /\ pc # "processFiles") => (pending = {} /\ joined)
    /\ (mapped /\ failed # <<>>) => commands # <<>>
    /\ mapped =>
           \A i \in DOMAIN prFiles :
               /\ contentResult[i] = "error"
                  => (diffBlocksOf(i) = 1 /\ contentBlocksOf(i) = 0)
               /\ contentResult[i] = "file"
                  => (diffBlocksOf(i) = 1 /\ contentBlocksOf(i) = 1)

\* C9 witness: an invocation posted its comment although one content request
\* failed, and a sibling request answered after that failure with a file.
C9_Witness ==
    /\ pc = "done"
    /\ posted = 1
    /\ failed = <<>>
    /\ \E i, j \in DOMAIN prFiles :
           /\ contentResult[i] = "error"
           /\ contentResult[j] = "file"
           /\ relevantDiffs = << diffBlock(prFiles[i]), diffBlock(prFiles[j]) >>

\* C10: when all files are processed and no block was collected, no command
\* is sent to the agent, no comment is created and no failure is signalled.
C10_EmptyChangeSetIsNoOp ==
    (joined /\ relevantCode = <<>> /\ relevantDiffs = <<>>)
    => /\ pc = "done"
       /\ commands = <<>>
       /\ posted = 0
       /\ ~called("createComment")
       /\ failed = <<>>

\* C10 witness: an invocation on a request with changed files ended by the
\* early exit.
C10_Witness ==
    /\ pc = "done"
    /\ warned
    /\ prFiles # <<>>
    /\ relevantCode = <<>>
    /\ relevantDiffs = <<>>
    /\ commands = <<>>

\* the configuration of the current invocation lacks a required value
configIncomplete ==
    \/ ~config.token \/ ~config.repo
    \/ ~config.hasNumber \/ ~config.hasId
    \/ ~config.hasAgentId \/ ~config.hasAgentAliasId

\* C11: when the agent call throws, answers without a completion or its stream
\* breaks, the invocation ends with one failure that carries the error message
\* and creates no comment; a comment is created only with a response that was
\* received to its end, and its body ends with that response.
C11_AgentFailureIsFatal ==
    /\ agentOutcome \in {"sendThrows", "noCompletion", "streamFails"}
       => /\ pc = "done"
          /\ Len(failed) = 1
          /\ includes(failed[1], invokeAgentError(agentOutcome))
          /\ posted = 0
          /\ ~called("createComment")
          /\ commentBody = <<>>
    /\ called("createComment")
       => /\ agentOutcome = "ok"
          /\ agentResponse \in { join(c) : c \in Completions }
          /\ Len(commentBody) >= Len(agentResponse)
          /\ SubSeq(commentBody, Len(commentBody) - Len(agentResponse) + 1,
                    Len(commentBody)) = agentResponse

\* C11 witness: the completion stream of the agent broke after its first chunk
\* and the invocation has ended with its failure.
C11_Witness ==
    /\ pc = "done"
    /\ agentOutcome = "streamFails"
    /\ commands # <<>>
    /\ Len(failed) = 1
    /\ posted = 0

\* C12 (as claimed): an invocation whose configuration lacks GITHUB_TOKEN,
\* GITHUB_REPOSITORY, the request's number or id, the agent id or the agent
\* alias id signals a failure and calls neither the host nor the agent.
C12_MissingConfigAbortsBeforeCalls ==
    (event # "none" /\ configIncomplete)
    => /\ failed # <<>>
       /\ hostCalls = <<>>
       /\ commands = <<>>

\* a rule with malformed glob syntax: a bracket that is never closed
malformed(rule) ==
    \E a \in DOMAIN rule :
        rule[a] = "[" /\ \A b \in (a + 1)..Len(rule) : rule[b] # "]"

\* the file is left out by the ignore test: nothing is requested or collected
excluded(i) ==
    /\ contentResult[i] = "notRequested"
    /\ contentBlocksOf(i) = 0
    /\ diffBlocksOf(i) = 0

\* C13 (as claimed): once the rules are loaded no malformed rule is among them;
\* and a file with an in-scope status is excluded exactly when some well-formed
\* rule of the input rules or of the ignore-file rules matches its path.
C13_ExclusionByValidRules ==
    /\ called("listComments")
       => \A k \in DOMAIN allIgnorePatterns : ~malformed(allIgnorePatterns[k])
    /\ mapped
       => \A i \in DOMAIN prFiles :
              statusInScope(i)
              => (excluded(i) <=>
                    \E k \in DOMAIN allIgnorePatterns :
                        /\ ~malformed(allIgnorePatterns[k])
                        /\ minimatch(prFiles[i].filename, allIgnorePatterns[k]))

\* the path is the directory named by a rule that ends in "/", or lies beneath it
beneath(path, rule) ==
    /\ Len(rule) > 1
    /\ rule[Len(rule)] = "/"
    /\ \/ path = SubSeq(rule, 1, Len(rule) - 1)
       \/ /\ Len(path) > Len(rule)
          /\ SubSeq(path, 1, Len(rule)) = rule

\* C14 (as claimed): a file with an in-scope status whose path lies beneath the
\* directory of a rule ending in "/" is excluded.
C14_DirectoryRuleExcludesSubtree ==
    mapped =>
        \A i \in DOMAIN prFiles :
            (statusInScope(i)
               /\ \E k \in DOMAIN allIgnorePatterns :
                      beneath(prFiles[i].filename, allIgnorePatterns[k]))
            => excluded(i)

\* the maximum prompt length of the specification, in tokens of the model; the
\* program defines no maximum
MaxPromptLength == 40

\* the truncation marker of the specification; the program defines none
TruncationMarker == <<"[truncated]">>

\* C15 (as claimed): no command carries a prompt longer than the maximum; when
\* the assembled prompt is longer, the prompt sent has exactly the maximum
\* length and is a prefix of the assembled prompt followed by the marker.
C15_TruncationSafety ==
    \A k \in DOMAIN commands :
        LET sent == commands[k].inputText
            full == prompt(relevantCode, relevantDiffs)
            kept == MaxPromptLength - Len(TruncationMarker)
        IN  /\ Len(sent) <= MaxPromptLength
            /\ Len(full) > MaxPromptLength
               => sent = SubSeq(full, 1, kept) \o TruncationMarker

ContentHeading == "## Content of Affected Files:\n\n"
DiffsHeading == "## Relevant Changes to the PR:\n\n"
FormatDirective ==
    "\nFormat your response using Markdown, including appropriate headers and code blocks where relevant."

has(text, token) == \E a \in DOMAIN text : text[a] = token

\* index of the first occurrence of the token, 0 when there is none
pos(text, token) ==
    IF has(text, token)
    THEN CHOOSE a \in DOMAIN text :
             text[a] = token /\ \A b \in 1..(a - 1) : text[b] # token
    ELSE 0

\* C16: the prompt of every command has the diffs heading, then the diff
\* blocks collected, then the instruction text, then the formatting directive
\* as its last part; it has the content heading exactly when a content block
\* was collected, and then the heading comes first and every content block
\* collected stands between it and the diffs heading.
C16_PromptLayout ==
    \A k \in DOMAIN commands :
        LET text == commands[k].inputText
            d == pos(text, DiffsHeading)
            n == Len(text)
        IN  /\ d > 0
            /\ text[n] = FormatDirective
            /\ n - Len(actionPrompt) > d
            /\ SubSeq(text, n - Len(actionPrompt), n - 1) = actionPrompt
            /\ relevantDiffs # <<>>
            /\ \A a \in DOMAIN relevantDiffs :
                   includes(SubSeq(text, d + 1, n - Len(actionPrompt) - 1), relevantDiffs[a])
            /\ has(text, ContentHeading) <=> relevantCode # <<>>
            /\ relevantCode # <<>>
               => /\ pos(text, ContentHeading) = 1
                  /\ \A a \in DOMAIN relevantCode :
                         includes(SubSeq(text, 2, d - 1), relevantCode[a])

\* C16 witness: a command was sent with two content blocks collected, and its
\* prompt starts with the content heading.
C16_Witness ==
    /\ Len(commands) = 1
    /\ Len(relevantCode) = 2
    /\ commands[1].inputText[1] = ContentHeading

\* C17 (as claimed): two runs of the builder on the same changed-file list and
\* the same comments, whose content requests had the same answers, end with the
\* same content blocks and the same diff blocks in the same order, whatever
\* order the answers came in.
C17_BuilderIdempotent ==
    \A a, b \in DOMAIN buildLog :
        ( /\ buildLog[a].files = buildLog[b].files
          /\ buildLog[a].ledger = buildLog[b].ledger
          /\ buildLog[a].fetched = buildLog[b].fetched )
        => /\ buildLog[a].codeBlocks = buildLog[b].codeBlocks
           /\ buildLog[a].diffBlocks = buildLog[b].diffBlocks

\* C18: once the early-exit test is passed (a command is sent, or the run ended
\* by the early exit) no content request is in flight: each has answered or
\* failed; and the prompt of the command is the one assembled from the
\* collections as they still are, so no block was appended after the assembly.
C18_JoinBarrier ==
    /\ (commands # <<>> \/ warned \/ pc \in {"invokeAgent", "createComment"})
       => \A i \in DOMAIN contentResult :
              contentResult[i] \in ContentOutcomes \cup {"notRequested"}
    /\ \A k \in DOMAIN commands :
           /\ commands[k].inputText = prompt(relevantCode, relevantDiffs)
           /\ \A a \in DOMAIN relevantCode : includes(commands[k].inputText, relevantCode[a])
           /\ \A a \in DOMAIN relevantDiffs : includes(commands[k].inputText, relevantDiffs[a])

\* C18 witness: a command was sent after two content requests, one of which
\* failed and one of which answered with a file.
C18_Witness ==
    /\ pc = "invokeAgent"
    /\ Len(commands) = 1
    /\ \E i, j \in DOMAIN contentResult :
           contentResult[i] = "error" /\ contentResult[j] = "file"

\* C19: an invocation sends at most one command to the agent; once the call
\* has answered or failed, exactly one was sent and main is past the call; over
\* all invocations no more commands were sent than invocations were started.
C19_SingleAgentCall ==
    /\ Len(commands) <= 1
    /\ Len(sessionLog) <= runs
    /\ agentOutcome # "none"
       => (Len(commands) = 1 /\ pc \in {"createComment", "done"})

\* C19 witness: the agent call of an invocation failed and the invocation has
\* ended with the one command it sent.
C19_Witness ==
    /\ pc = "done"
    /\ agentOutcome = "sendThrows"
    /\ Len(commands) = 1
    /\ failed # <<>>

\* the four values main validates are present
validated == config.token /\ config.repo /\ config.hasNumber /\ config.hasId

\* C20: no invocation signals more than one failure; when an await of main
\* rejected (listing files, listing comments, the agent call, creating the
\* comment) the invocation has ended with exactly one failure, whose message is
\* not empty, and nothing that comes after the rejected await has happened; an
\* invocation in which nothing rejected and the validated values are present
\* signals no failure.
C20_OneFailureSignal ==
    /\ Len(failed) <= 1
    /\ \A k \in DOMAIN failed : failed[k] # <<>>
    /\ thrown # "none"
       => /\ pc = "done"
          /\ Len(failed) = 1
          /\ posted = 0
          /\ thrown = "listFiles"
             => (hostCalls = <<hostCall("listFiles")>> /\ commands = <<>>)
          /\ thrown = "listComments"
             => ( /\ hostCalls = <<hostCall("listFiles"), hostCall("listComments")>>
                  /\ commands = <<>> )
          /\ thrown = "invokeAgent" => ~called("createComment")
    /\ (thrown = "none" /\ validated) => failed = <<>>
    /\ (event # "none" /\ ~validated) => (Len(failed) = 1 /\ pc = "done")

\* C20 witness: issues.createComment rejected at the end of an invocation that
\* had requested file contents and called the agent.
C20_Witness ==
    /\ pc = "done"
    /\ thrown = "createComment"
    /\ called("getContent")
    /\ Len(commands) = 1
    /\ Len(failed) = 1

\* C21 (as claimed): a command sent to the agent carries a memoryId exactly
\* when the memory_id input is not empty, and then the memoryId is that input.
C21_MemoryIdFromInput ==
    \A k \in DOMAIN commands :
        /\ commands[k].hasMemoryId <=> config.memoryIdInput # <<>>
        /\ commands[k].hasMemoryId => commands[k].memoryId = config.memoryIdInput

isSeparator(c) == c = "," \/ c \in WhiteSpace

withoutSeparators(text) == SelectSeq(text, LAMBDA c : ~isSeparator(c))

\* positions of the input where a comma-separated entry has its first character
\* that is not white space
entryStarts(input) ==
    { a \in DOMAIN input :
        /\ ~isSeparator(input[a])
        /\ \A b \in 1..(a - 1) :
               (\A m \in b..(a - 1) : input[m] # ",") => input[b] \in WhiteSpace }

\* C22: the rules read from the ignore_patterns input are its comma-separated
\* entries: one rule per entry that is not blank, in the order of the input,
\* each a piece of the input without a comma and without white space at either
\* end, and together they hold every character of the input that is neither a
\* comma nor white space; the default **/*.md,docs/**,.github/** gives three
\* rules.
C22_CommaSeparatedRules ==
    /\ Len(ignorePatterns) = Cardinality(entryStarts(ignoreInput))
    /\ \A k \in DOMAIN ignorePatterns :
           /\ ignorePatterns[k] # <<>>
           /\ ~has(ignorePatterns[k], ",")
           /\ Head(ignorePatterns[k]) \notin WhiteSpace
           /\ ignorePatterns[k][Len(ignorePatterns[k])] \notin WhiteSpace
           /\ includes(ignoreInput, ignorePatterns[k])
    /\ withoutSeparators(join(ignorePatterns)) = withoutSeparators(ignoreInput)
    /\ ignoreInput = DefaultIgnoreInput
       => ignorePatterns = << <<"*", "*", "/", "*", ".", "m", "d">>,
                              <<"d", "o", "c", "s", "/", "*", "*">>,
                              <<".", "g", "i", "t", "h", "u", "b", "/", "*", "*">> >>

\* C22 witness: the default input was read and gave three rules.
C22_Witness ==
    /\ ignoreInput = DefaultIgnoreInput
    /\ Len(ignorePatterns) = 3

\* the status line of a changed file in the comment
statusLine(file) == <<"- **">> \o file.filename \o <<"**: ", file.status>>

\* C23: the body handed to createComment starts with the header and the number
\* of the request, then gives the number of content blocks and the number of
\* diff blocks collected, then one status line per changed file, and ends with
\* the response of the agent, which is the text the agent sent, unchanged;
\* the body holds nothing else.
C23_CommentComposition ==
    called("createComment") =>
        LET counts == <<"\n\n### Files Analyzed: ">> \o NumToString(Len(relevantCode))
                          \o <<"\n### Diffs Analyzed: ">> \o NumToString(Len(relevantDiffs))
                          \o <<"\n\n### Files in the PR:\n">>
            head == <<"## Analysis for Pull Request #">> \o NumToString(pr.number)
            tail == <<"\n\n">> \o agentResponse
            n == Len(commentBody)
            summary == SubSeq(commentBody, Len(head) + Len(counts) + 1, n - Len(tail))
        IN  /\ agentResponse \in { join(c) : c \in Completions }
            /\ n >= Len(head) + Len(counts) + Len(tail)
            /\ SubSeq(commentBody, 1, Len(head)) = head
            /\ SubSeq(commentBody, Len(head) + 1, Len(head) + Len(counts)) = counts
            /\ SubSeq(commentBody, n - Len(tail) + 1, n) = tail
            /\ \A i \in DOMAIN prFiles : includes(summary, statusLine(prFiles[i]))
            /\ countOf(summary, "- **") = Len(prFiles)
            /\ countOf(summary, "\n") = Len(prFiles) - 1

\* C23 witness: a comment was posted after one content block and two diff
\* blocks were collected, with a response that itself holds a content heading.
C23_Witness ==
    /\ posted = 1
    /\ Len(relevantCode) = 1
    /\ Len(relevantDiffs) = 2
    /\ includes(agentResponse, <<"### Content of ">>)
    /\ prComments[Len(prComments)] = commentBody

\* number of characters of the chunks before chunk k
RECURSIVE offset(_, _)
offset(chunks, k) == IF k = 1 THEN 0 ELSE offset(chunks, k - 1) + Len(chunks[k - 1])

\* the text is the chunks one after the other, in their order, and nothing else
concatenationOf(text, chunks) ==
    /\ Len(text) = offset(chunks, Len(chunks) + 1)
    /\ \A k \in DOMAIN chunks :
           SubSeq(text, offset(chunks, k) + 1, offset(chunks, k) + Len(chunks[k])) = chunks[k]

\* what C24 says of every outcome but the message of the error
invokeAgentOutcome ==
    /\ agentOutcome # "none" => wrapperCall.state \in {"returned", "threw"}
    /\ wrapperCall.state = "returned"
       => /\ agentOutcome = "ok"
          /\ concatenationOf(wrapperCall.value, wrapperCall.received)
    /\ wrapperCall.state = "threw"
       => agentOutcome \in {"sendThrows", "noCompletion", "streamFails"}
    /\ agentOutcome \in {"noCompletion", "streamFails"} => wrapperCall.state = "threw"

\* C24 (as claimed): invokeAgent returns the chunks of the completion joined in
\* their order of arrival, or throws; it throws when the response has no
\* completion or the stream breaks; and the message of the error it throws
\* starts with "Failed to invoke Bedrock agent".
C24_ReturnsAllOrThrowsPrefixed ==
    /\ invokeAgentOutcome
    /\ wrapperCall.state = "threw"
       => wrapperCall.value[1] = "Failed to invoke Bedrock agent"

\* C24 (amended): as C24, but the message of the error holds "Failed to invoke
\* Bedrock agent" after the prefix "Error: ", followed by the message of the
\* cause.
C24_ReturnsAllOrThrows ==
    /\ invokeAgentOutcome
    /\ wrapperCall.state = "threw"
       => /\ Len(wrapperCall.value) > 3
          /\ SubSeq(wrapperCall.value, 1, 3)
                 = <<"Error: ", "Failed to invoke Bedrock agent", ": ">>

\* C24 witness: the stream of a call broke after its first chunk and
\* invokeAgent threw.
C24_Witness ==
    /\ wrapperCall.state = "threw"
    /\ agentOutcome = "streamFails"
    /\ wrapperCall.received # <<>>

\* C25: the command invokeAgent builds carries the session id passed in, the
\* memoryId exactly when one was passed, and the end-of-session flag passed in;
\* its input text is "Goodbye." when the flag is set, whatever the prompt, and
\* the prompt passed in when the flag is not set.
C25_EndSessionVariant ==
    wrapperCall.state # "none" =>
        LET a == wrapperCall.args
            c == commands[1]
        IN  /\ Len(commands) = 1
            /\ c.sessionId = a.sessionId
            /\ c.endSession = a.endSession
            /\ c.hasMemoryId <=> a.memoryId # <<>>
            /\ c.hasMemoryId => c.memoryId = a.memoryId
            /\ a.endSession => c.inputText = <<"Goodbye.">>
            /\ ~a.endSession => c.inputText = a.prompt

\* C25 witness: invokeAgent was called with the end-of-session flag, a prompt
\* and a memoryId, and has returned.
C25_Witness ==
    /\ wrapperCall.state = "returned"
    /\ wrapperCall.args.endSession
    /\ wrapperCall.args.prompt = <<"Analyze the changes.">>
    /\ wrapperCall.args.memoryId # <<>>
    /\ commands[1].inputText = <<"Goodbye.">>

\* C26: when a command is sent to the agent, the changed files and the
\* comments have been asked for, in this order, and both have answered; when
\* createComment is called, a command was sent and its response was received
\* to its end, and createComment is the last call to the host and is made
\* once; a comment is posted only through that call.
C26_StepOrder ==
    /\ commands # <<>>
       => /\ Len(hostCalls) >= 2
          /\ hostCalls[1] = hostCall("listFiles")
          /\ hostCalls[2] = hostCall("listComments")
          /\ mapped
    /\ called("createComment")
       => /\ Len(commands) = 1
          /\ agentOutcome = "ok"
          /\ hostCalls[Len(hostCalls)] = hostCall("createComment")
          /\ countOf(hostCalls, hostCall("createComment")) = 1
    /\ posted > 0 => called("createComment")

\* C26 witness: an invocation has gone through all its steps: files and
\* comments listed, content requested, agent called, comment posted.
C26_Witness ==
    /\ pc = "done"
    /\ posted = 1
    /\ Len(hostCalls) = 5
    /\ hostCalls[3].api = "getContent"
    /\ hostCalls[5] = hostCall("createComment")

\* C27: while and after the files are processed, every file with a content
\* block has a diff block, and there are no more content blocks than diff
\* blocks; after the early-exit test, the early exit was taken exactly when no
\* diff block was collected.
C27_ContentImpliesDiff ==
    /\ mapped
       => /\ Len(relevantCode) <= Len(relevantDiffs)
          /\ \A i \in DOMAIN prFiles : contentBlocksOf(i) > 0 => diffBlocksOf(i) > 0
          /\ noRelevantFiles(relevantCode, relevantDiffs) <=> relevantDiffs = <<>>
    /\ joined => (warned <=> relevantDiffs = <<>>)

\* C27 witness: a comment was posted that reports fewer content blocks than
\* diff blocks.
C27_Witness ==
    /\ posted = 1
    /\ Len(relevantCode) = 1
    /\ Len(relevantDiffs) = 2
    /\ includes(commentBody, <<"\n\n### Files Analyzed: ", "1", "\n### Diffs Analyzed: ", "2">>)

\* C28: an invocation posts at most one comment and calls createComment at
\* most once; an invocation that signalled a failure has posted no comment, and
\* one that posted a comment has signalled no failure.
C28_CommentOrFailure ==
    /\ posted <= 1
    /\ countOf(hostCalls, hostCall("createComment")) <= 1
    /\ ~(posted > 0 /\ failed # <<>>)
    /\ posted > 0 => (pc = "done" /\ thrown = "none")

\* C28 witness: two invocations in a row have each posted their one comment on
\* a request that had no comment, the second without any failure.
C28_Witness ==
    /\ runs = 2
    /\ pc = "done"
    /\ posted = 1
    /\ failed = <<>>
    /\ Len(prComments) = 2
    /\ prComments[1] # HumanComment

\* C29: in an invocation that comes after a comment was posted, every changed
\* file whose name was in the changed-file list of a posted comment is found
\* by the ledger test: no content is requested for it, it gets no content
\* block, and when it is in scope exactly its diff block is collected.
C29_ListedFilesCountAsAnalyzed ==
    (mapped /\ posted = 0) =>
        \A i \in DOMAIN prFiles :
            prFiles[i].filename \in postedFiles
            => /\ alreadyAnalyzed(prFiles[i].filename, comments)
               /\ contentResult[i] = "notRequested"
               /\ contentBlocksOf(i) = 0
               /\ diffBlocksOf(i) = (IF fileInScope(i) THEN 1 ELSE 0)

\* C29 witness: app.ts was in the changed-file list of a posted comment, no
\* comment holds its full content, and a later invocation in which it is in
\* scope has collected its diff block without requesting its content.
C29_Witness ==
    /\ joined
    /\ posted = 0
    /\ app_ts \in postedFiles
    /\ ~markerInComments(app_ts, comments)
    /\ \E i \in DOMAIN prFiles :
           /\ prFiles[i].filename = app_ts
           /\ fileInScope(i)
           /\ contentResult[i] = "notRequested"
           /\ diffBlocksOf(i) = 1

\* number of content requests of the invocation for the path
requestsFor(path) ==
    Cardinality({ k \in DOMAIN hostCalls :
                    hostCalls[k].api = "getContent" /\ hostCalls[k].path = path })

\* C30: every content request of an invocation is for a changed file that has
\* an in-scope status, matches no ignore rule and is not found in the comments;
\* a file that is excluded by a rule, has another status, or is in the ledger
\* (by the test of the code or by its content heading) has no content request;
\* and no file has more than one.
C30_FetchOnlyWhenNeeded ==
    mapped =>
        /\ \A k \in DOMAIN hostCalls :
               hostCalls[k].api = "getContent"
               => \E i \in DOMAIN prFiles :
                      /\ prFiles[i].filename = hostCalls[k].path
                      /\ statusInScope(i)
                      /\ ~matchesIgnoreRule(i)
                      /\ ~alreadyAnalyzed(prFiles[i].filename, comments)
        /\ \A i \in DOMAIN prFiles :
               /\ requestsFor(prFiles[i].filename) <= 1
               /\ requestsFor(prFiles[i].filename) = 1 <=> contentResult[i] # "notRequested"
               /\ ( \/ ~statusInScope(i)
                    \/ matchesIgnoreRule(i)
                    \/ alreadyAnalyzed(prFiles[i].filename, comments)
                    \/ markerInComments(prFiles[i].filename, comments) )
                  => requestsFor(prFiles[i].filename) = 0

\* C30 witness: of two in-scope files one is found in the comments and one is
\* not, and the invocation has made its one content request, for the second.
C30_Witness ==
    /\ joined
    /\ \E i, j \in DOMAIN prFiles :
           /\ fileInScope(i) /\ fileInScope(j)
           /\ alreadyAnalyzed(prFiles[i].filename, comments)
           /\ requestsFor(prFiles[i].filename) = 0
           /\ ~alreadyAnalyzed(prFiles[j].filename, comments)
           /\ requestsFor(prFiles[j].filename) = 1
    /\ Cardinality({ k \in DOMAIN hostCalls : hostCalls[k].api = "getContent" }) = 1

====
